---- MODULE Spec2Model ----
(***************************************************************************)
(* A model of data/ray_utils.py: the depth sampler and orchestrator        *)
(* (ray_marcher), the inverse-CDF importance resampler (sample_pdf) and    *)
(* the bounded-volume reparameterisation (get_ndc_rays).                   *)
(*                                                                         *)
(* Numbers.  A tensor element is an extended rational <<n, d>>: d > 0 is   *)
(* the real n/d in lowest terms, <<1,0>> is +inf, <<-1,0>> is -inf and     *)
(* <<0,0>> is nan, with the IEEE rules for division by zero.  Arithmetic   *)
(* is exact: floating-point rounding is not modelled.                      *)
(*                                                                         *)
(* Shapes.  A 2-D tensor is a sequence of rows; torch's broadcasting and   *)
(* expand rules are modelled by Bcast/CanExpand, and a shape mismatch is   *)
(* the RuntimeError torch raises (pc = "error").                           *)
(***************************************************************************)
EXTENDS Integers, Sequences, FiniteSets, TLC

VARIABLES
    \* ---- ray_marcher ----
    pc,          \* "init","coarse","density","resampled","final","error"
    rays,        \* the ray batch: a sequence of rows of ncols numbers
    N_samples,   \* M
    N_importance,\* K
    use_disp, perturb, density_volume, bbox_3D,
    z_vals,      \* (rows, cols) depth values
    xyz,         \* xyz_coarse_sampled: (rows, cols) points (triples)
    weights,     \* compositing weights after the density query
    cos_angle2,  \* cos_angle, squared (3 entries)
    trace,       \* the states passed through, in order
    \* ---- sample_pdf ----
    pdf_pc, bins, pdf_w, pdf_n, det, pdf_out,
    \* ---- get_ndc_rays ----
    ndc_pc, ndc_in, ndc_out

mvars == <<pc, rays, N_samples, N_importance, use_disp, perturb,
           density_volume, bbox_3D, z_vals, xyz, weights, cos_angle2, trace>>
pvars == <<pdf_pc, bins, pdf_w, pdf_n, det, pdf_out>>
nvars == <<ndc_pc, ndc_in, ndc_out>>
vars == <<mvars, pvars, nvars>>

-----------------------------------------------------------------------------
(* Bounds of the model *)
MaxRays == 3         \* rays per batch
MaxSamples == 3      \* N_samples
MaxImportance == 1   \* N_importance
MaxCols == 9         \* columns of a ray row
MaxSlots == 4        \* rays * samples of a batch
MaxBins == 4         \* len(bins) given to sample_pdf
MaxWeights == 3      \* len(weights) given to sample_pdf
MaxDraws == 2        \* N_samples given to sample_pdf

(* Program constants *)
RayCols == 8         \* [ox,oy,oz,dx,dy,dz,near,far]
EpsDen == 100000     \* 1e-5 == 1/EpsDen

-----------------------------------------------------------------------------
(* Extended rationals *)
Abs(x) == IF x < 0 THEN -x ELSE x
Sgn(x) == IF x < 0 THEN -1 ELSE IF x > 0 THEN 1 ELSE 0
Min(a, b) == IF a <= b THEN a ELSE b
Max(a, b) == IF a >= b THEN a ELSE b

RECURSIVE GCD(_, _)
GCD(a, b) == IF b = 0 THEN a ELSE GCD(b, a % b)

Q(n, d) ==
    IF d = 0 THEN <<Sgn(n), 0>>
    ELSE LET g == GCD(Abs(n), Abs(d)) IN <<(Sgn(d) * n) \div g, Abs(d) \div g>>

R(n) == <<n, 1>>
Zero == R(0)
One == R(1)
Inf == <<1, 0>>
NaN == <<0, 0>>
IsFinite(a) == a[2] # 0

\* products and sums cancel common factors before multiplying
RMul(a, b) ==
    LET g1 == GCD(Abs(a[1]), b[2])
        g2 == GCD(Abs(b[1]), a[2])
        h1 == IF g1 = 0 THEN 1 ELSE g1
        h2 == IF g2 = 0 THEN 1 ELSE g2
    IN  Q((a[1] \div h1) * (b[1] \div h2), (a[2] \div h2) * (b[2] \div h1))
RNeg(a) == <<-a[1], a[2]>>
RAdd(a, b) ==
    IF a[2] = 0 \/ b[2] = 0
    THEN (IF a[2] # 0 THEN b
          ELSE IF b[2] # 0 THEN a
          ELSE IF a[1] = b[1] THEN a ELSE NaN)
    ELSE LET g == GCD(a[2], b[2])
         IN  Q(a[1] * (b[2] \div g) + b[1] * (a[2] \div g), (a[2] \div g) * b[2])
RSub(a, b) == RAdd(a, RNeg(b))
\* IEEE division: x/0 is +-inf, 0/0 is nan, x/inf is 0
RDiv(a, b) ==
    RMul(a, <<b[2] * Sgn(IF b[1] = 0 THEN 1 ELSE b[1]), Abs(b[1])>>)

RECURSIVE LtFrac(_, _, _, _)
\* a/b < c/d for b, d > 0, by continued fractions (no products)
LtFrac(a, b, c, d) ==
    IF (a \div b) # (c \div d) THEN (a \div b) < (c \div d)
    ELSE IF c % d = 0 THEN FALSE
    ELSE IF a % b = 0 THEN TRUE
    ELSE LtFrac(d, c % d, b, a % b)
RLt(a, b) ==
    IF a[2] = 0 \/ b[2] = 0
    THEN a # NaN /\ b # NaN /\ a # b /\ (a = <<-1, 0>> \/ b = Inf)
    ELSE LtFrac(a[1], a[2], b[1], b[2])
RLe(a, b) == (a = b /\ a # NaN) \/ RLt(a, b)

-----------------------------------------------------------------------------
(* Tensors: shapes, broadcasting, slicing *)
Rows(T) == Len(T)
Cols(T) == IF Len(T) = 0 THEN 0 ELSE Len(T[1])

\* a function on 1..n as a sequence value (evaluated once)
Vec(f, n) == SubSeq(f, 1, n)

\* torch broadcasting of one dimension; -1 is the RuntimeError
Bcast(a, b) == IF a = b THEN a ELSE IF a = 1 THEN b ELSE IF b = 1 THEN a ELSE -1
\* tensor.expand: a dimension of size 1 stretches, any other must match
CanExpand(from, to) == from = to \/ from = 1
\* the element a broadcast/expanded tensor shows at (i, j)
At(T, i, j) == T[IF Rows(T) = 1 THEN 1 ELSE i][IF Cols(T) = 1 THEN 1 ELSE j]
\* python's row[a:b] (0-based, end exclusive, clamped to the row)
Slice(row, a, b) == SubSeq(row, a + 1, Min(b, Len(row)))

\* faulty variant (sensitivity of C2): the end point 1 is left out
LinspaceOpen(steps) == [i \in 1..steps |-> Q(i - 1, steps)]
\* torch.linspace(0, 1, steps)
Linspace(steps) ==
    [i \in 1..steps |-> IF steps = 1 THEN Zero ELSE Q(i - 1, steps - 1)]

RECURSIVE Insert(_, _)
Insert(x, s) ==
    IF s = <<>> THEN <<x>>
    ELSE IF RLe(x, Head(s)) THEN <<x>> \o s
    ELSE <<Head(s)>> \o Insert(x, Tail(s))
RECURSIVE Sort(_)
\* torch.sort(..., -1)[0] of one row
Sort(s) == IF s = <<>> THEN <<>> ELSE Insert(Head(s), Sort(Tail(s)))

IsSorted(s) == \A i \in 1..(Len(s) - 1) : RLe(s[i], s[i + 1])

-----------------------------------------------------------------------------
(* sample_pdf: hierarchical (inverse-CDF) sampling *)
Eps == Q(1, EpsDen)

RECURSIVE RowSum(_)
RowSum(row) == IF row = <<>> THEN Zero ELSE RAdd(Head(row), RowSum(Tail(row)))

\* faulty variant (sensitivity of C7): no epsilon is added
StabiliseNone(w) == w
\* weights = weights + 1e-5
Stabilise(w) ==
    Vec([r \in 1..Rows(w) |-> Vec([j \in 1..Cols(w) |-> RAdd(w[r][j], Eps)], Cols(w))],
        Rows(w))
\* pdf = weights / torch.sum(weights, -1, keepdim=True)
Pdf(w) ==
    LET sw == Stabilise(w)
    IN  Vec([r \in 1..Rows(w) |->
                LET tot == RowSum(sw[r])
                IN  Vec([j \in 1..Cols(w) |-> RDiv(sw[r][j], tot)], Cols(w))],
            Rows(w))
\* cdf = cat([zeros, cumsum(pdf)]): one entry more than the weights
Cdf(w) ==
    LET p == Pdf(w)
    IN  Vec([r \in 1..Rows(w) |->
                Vec([j \in 1..(Cols(w) + 1) |-> RowSum(SubSeq(p[r], 1, j - 1))],
                    Cols(w) + 1)],
            Rows(w))

\* faulty variant (sensitivity of C4): a left-inclusive search
SearchSortedLeft(row, u) == Cardinality({j \in 1..Len(row) : RLt(row[j], u)})
\* searchsorted(cdf, u, right=True): the number of cdf entries <= u, which
\* is the (0-based) index of the first entry > u
SearchSortedRight(row, u) == Cardinality({j \in 1..Len(row) : RLe(row[j], u)})
\* below = max(0, inds - 1); above = min(cdf.shape[-1] - 1, inds)   (0-based)
Below(inds) == Max(0, inds - 1)
Above(inds, ncdf) == Min(ncdf - 1, inds)

\* denom = where(denom < 1e-5, 1, denom)
Denom(cdf_below, cdf_above) ==
    LET d == RSub(cdf_above, cdf_below) IN IF RLt(d, Eps) THEN One ELSE d

\* bins.unsqueeze(1).expand([rows, N_samples, cdf.shape[-1]]) succeeds
BinsExpandOk(b, w) ==
    CanExpand(Rows(b), Rows(w)) /\ CanExpand(Cols(b), Cols(w) + 1)

\* one sample: bins_below + t * (bins_above - bins_below)
Interp(b_below, b_above, u, cdf_below, cdf_above) ==
    LET t == RDiv(RSub(u, cdf_below), Denom(cdf_below, cdf_above))
    IN  RAdd(b_below, RMul(t, RSub(b_above, b_below)))

\* lines 125-138 for u of shape (rows of cdf, N_samples), once the expand of
\* bins is known to succeed
Samples(b, cdf, u) ==
    Vec([r \in 1..Rows(cdf) |-> Vec([k \in 1..Cols(u) |->
            LET inds  == SearchSortedRight(cdf[r], u[r][k])
                below == Below(inds)
                above == Above(inds, Cols(cdf))
            IN  Interp(At(b, r, below + 1), At(b, r, above + 1), u[r][k],
                       cdf[r][below + 1], cdf[r][above + 1])], Cols(u))],
        Rows(cdf))

\* the whole call; what each line computed is kept so that the indices and
\* divisors can be inspected
SamplePdf(b, w, u) ==
    LET cdf   == Cdf(w)
        ncdf  == Cols(w) + 1
        inds  == [r \in 1..Rows(w) |-> [k \in 1..Cols(u) |->
                    SearchSortedRight(cdf[r], u[r][k])]]
        below == [r \in 1..Rows(w) |-> [k \in 1..Cols(u) |-> Below(inds[r][k])]]
        above == [r \in 1..Rows(w) |-> [k \in 1..Cols(u) |-> Above(inds[r][k], ncdf)]]
        ok    == BinsExpandOk(b, w)
    IN  [err   |-> ~ok,
         sum   |-> [r \in 1..Rows(w) |-> RowSum(Stabilise(w)[r])],
         cdf   |-> cdf,
         u     |-> u,
         inds  |-> inds,
         below |-> below,
         above |-> above,
         denom |-> [r \in 1..Rows(w) |-> [k \in 1..Cols(u) |->
                      Denom(cdf[r][below[r][k] + 1], cdf[r][above[r][k] + 1])]],
         samples |-> IF ok THEN Samples(b, cdf, u) ELSE <<>>]

-----------------------------------------------------------------------------
(* ray_marcher: the depth sampler *)
ToR(row) == Vec([j \in 1..Len(row) |-> R(row[j])], Len(row))
SliceCols(T, a, b) == Vec([r \in 1..Rows(T) |-> ToR(Slice(T[r], a, b))], Rows(T))
\* rays_o, rays_d = rays[:, 0:3], rays[:, 3:6]
RaysO(rs) == SliceCols(rs, 0, 3)
RaysD(rs) == SliceCols(rs, 3, 6)
\* near, far = rays[:, 6:7], rays[:, 7:8]
Near(rs) == SliceCols(rs, 6, 7)
Far(rs) == SliceCols(rs, 7, 8)

\* the columns of near * (1 - z_steps) + far * z_steps (or of its disparity
\* form, whose operands have the same shapes); -1 is a broadcast error
CoarseCols(rs, M) ==
    LET a == Bcast(Cols(Near(rs)), M)
        b == Bcast(Cols(Far(rs)), M)
    IN  IF a = -1 \/ b = -1 THEN -1 ELSE Bcast(a, b)
\* ... and z_vals.expand(N_rays, N_samples) accepts it
CoarseOk(rs, M) == CoarseCols(rs, M) # -1 /\ CanExpand(CoarseCols(rs, M), M)

Half == Q(1, 2)
\* linear sampling in depth space
LinearZ(near, far, s) == RAdd(RMul(near, RSub(One, s)), RMul(far, s))
\* linear sampling in disparity space
DispZ(near, far, s) ==
    RDiv(One, RAdd(RMul(RDiv(One, near), RSub(One, s)), RMul(RDiv(One, far), s)))

\* z_vals before jitter, for a batch CoarseOk accepts
CoarseZ(rs, M, disp) ==
    LET z_steps == Linspace(M)
        near == Near(rs)
        far == Far(rs)
    IN  Vec([r \in 1..Rows(rs) |-> Vec([i \in 1..M |->
                IF disp THEN DispZ(near[r][1], far[r][1], z_steps[i])
                        ELSE LinearZ(near[r][1], far[r][1], z_steps[i])], M)],
            Rows(rs))

\* faulty variant (sensitivity of C1): the jitter spans the whole depth
\* range instead of the sample's own interval
JitterRowWide(z, p, rnd) ==
    LET n == Len(z)
        mid == [i \in 1..(n - 1) |-> RMul(Q(1, 2), RAdd(z[i], z[i + 1]))]
        lower == SubSeq(z, 1, 1) \o mid
    IN  [i \in 1..n |->
            RAdd(lower[i], RMul(RSub(z[n], z[1]), RMul(p, rnd[i])))]
\* the stratified jitter of one row; rnd is that row of torch.rand
JitterRow(z, p, rnd) ==
    LET M == Len(z)
        z_vals_mid == Vec([i \in 1..(M - 1) |-> RMul(Half, RAdd(z[i], z[i + 1]))], M - 1)
        upper == z_vals_mid \o SubSeq(z, M, M)
        lower == SubSeq(z, 1, 1) \o z_vals_mid
    IN  Vec([i \in 1..M |->
                RAdd(lower[i], RMul(RSub(upper[i], lower[i]), RMul(p, rnd[i])))], M)
Jitter(z, p, rnd) == Vec([r \in 1..Rows(z) |-> JitterRow(z[r], p, rnd[r])], Rows(z))

\* rays_o.unsqueeze(1) + rays_d.unsqueeze(1) * z_vals.unsqueeze(2)
Points(rs, z) ==
    LET rays_o == RaysO(rs)
        rays_d == RaysD(rs)
    IN  Vec([r \in 1..Rows(z) |-> Vec([i \in 1..Cols(z) |-> Vec([c \in 1..3 |->
                RAdd(rays_o[r][c], RMul(rays_d[r][c], z[r][i]))], 3)], Cols(z))],
            Rows(z))

-----------------------------------------------------------------------------
(* ray_marcher: the density query *)
\* pts_NDC = (xyz - bbox[0].view(3,1,1)) / (bbox[1] - bbox[0]).view(3,1,1):
\* the 3 box components line up with the FIRST axis of xyz (the rays)
PtsRows(p) == Bcast(Rows(p), 3)
PtsNDC(p, box) ==
    Vec([a \in 1..PtsRows(p) |-> Vec([i \in 1..Cols(p) |-> Vec([c \in 1..3 |->
            RDiv(RSub(At(p, a, i)[c], R(box[1][a])), R(box[2][a] - box[1][a]))], 3)],
                                      Cols(p))],
        PtsRows(p))

\* cos_angle = torch.norm(rays_d, dim=0): one entry per COMPONENT, taken
\* over the rays of the batch; kept squared (the norm is its square root)
CosAngle2(rs) ==
    LET rays_d == RaysD(rs)
    IN  Vec([c \in 1..3 |->
                RowSum([r \in 1..Rows(rs) |-> RMul(rays_d[r][c], rays_d[r][c])])], 3)

\* the external density lookup: a scalar density per queried point
Field(vol, pt) ==
    IF vol = "solid" /\ \A c \in 1..3 : RLe(Zero, pt[c]) /\ RLe(pt[c], One)
    THEN One ELSE Zero

\* depth2dist(z_vals, cos_angle): consecutive z differences, the last
\* segment open-ended, scaled row by row by the (3,1) column cos_angle;
\* kept squared like cos_angle
Dists2(z, cos2) ==
    Vec([a \in 1..Bcast(Rows(z), 3) |-> Vec([i \in 1..Cols(z) |->
            IF cos2[a] = Zero THEN Zero
            ELSE IF i = Cols(z) THEN Inf
            ELSE LET seg == RSub(At(z, a, i + 1), At(z, a, i))
                 IN  RMul(RMul(seg, seg), cos2[a])], Cols(z))],
        Bcast(Rows(z), 3))

\* alpha = 1 - exp(-relu(raw) * dists) on three levels: 0 where the exponent
\* is 0, 1 where the open last segment saturates it, 1/2 for the values
\* strictly between
AlphaOf(raw, d2) ==
    IF ~RLt(Zero, raw) \/ d2 = Zero THEN Zero
    ELSE IF d2 = Inf THEN One ELSE Half

RECURSIVE Prod(_)
Prod(row) == IF row = <<>> THEN One ELSE RMul(Head(row), Prod(Tail(row)))
\* weights = alpha * cumprod(cat([1, 1 - alpha + 1e-10]))[:, :-1]; the 1e-10
\* floor lies five orders below the 1e-5 sample_pdf adds and is taken as 0
Weights(alpha) ==
    Vec([a \in 1..Rows(alpha) |-> Vec([i \in 1..Cols(alpha) |->
            RMul(alpha[a][i],
                 Prod([j \in 1..(i - 1) |-> RSub(One, alpha[a][j])]))], Cols(alpha))],
        Rows(alpha))

\* lines 188-195 for a batch whose points broadcast against the box
DensityWeights(rs, z, p, box, vol) ==
    LET pts  == PtsNDC(p, box)
        d2   == Dists2(z, CosAngle2(rs))
    IN  Weights(Vec([a \in 1..Rows(pts) |-> Vec([i \in 1..Cols(pts) |->
                        AlphaOf(Field(vol, pts[a][i]), d2[a][i])], Cols(pts))],
                    Rows(pts)))

-----------------------------------------------------------------------------
(* get_ndc_rays, for one ray *)
\* faulty variant (sensitivity of C8): the sign of the shift is lost
ShiftTPos(near, oz, dz) == RDiv(RAdd(near, oz), dz)
\* t = -(near + rays_o[..., 2]) / rays_d[..., 2]
ShiftT(near, oz, dz) == RDiv(RNeg(RAdd(near, oz)), dz)

GetNdcRays(H, W, focal, near, o, d) ==
    LET t      == ShiftT(near, o[3], d[3])
        so     == [c \in 1..3 |-> RAdd(o[c], RMul(t, d[c]))]
        ox_oz  == RDiv(so[1], so[3])
        oy_oz  == RDiv(so[2], so[3])
        wf     == RDiv(R(W), RMul(R(2), focal[1]))
        hf     == RDiv(R(H), RMul(R(2), focal[2]))
        o0     == RMul(RDiv(R(-1), wf), ox_oz)
        o1     == RMul(RDiv(R(-1), hf), oy_oz)
        o2     == RAdd(One, RDiv(RMul(R(2), near), so[3]))
        d0     == RMul(RDiv(R(-1), wf), RSub(RDiv(d[1], d[3]), ox_oz))
        d1     == RMul(RDiv(R(-1), hf), RSub(RDiv(d[2], d[3]), oy_oz))
        d2     == RSub(One, o2)
    IN  [shifted  |-> so,
         rays_o   |-> <<o0, o1, o2>>,
         rays_d   |-> <<d0, d1, d2>>,
         divisors |-> <<d[3], so[3], so[3], wf, hf, so[3], wf, d[3], hf, d[3]>>]

-----------------------------------------------------------------------------
(* Inputs *)
\* ray rows [ox,oy,oz,dx,dy,dz,near,far] with 0 < near <= far
BaseRows == { <<0, 0, 0,  0, 0, 1,  1, 2>>,
              <<0, 0, 0,  1, 0, 2,  1, 3>>,
              <<1, 2, 0,  0, 2, 0,  2, 2>> }
\* a row cut or padded to n columns
Resize(row, n) == [j \in 1..n |-> IF j <= Len(row) THEN row[j] ELSE 0]
PerturbSet == {Zero, Half, One}
RandSet == {Zero, Q(3, 4)}       \* draws of torch.rand, in [0,1)
MarchUSet == {Zero, Half}        \* draws of sample_pdf's u inside ray_marcher
Volumes == {"None", "empty", "solid"}
BBoxes == { << <<0, 0, 0>>, <<4, 4, 4>> >> }

Idle == "idle"
PdfIdle == pdf_pc = Idle /\ bins = <<>> /\ pdf_w = <<>> /\ pdf_n = 0
           /\ det = FALSE /\ pdf_out = <<>>
NdcIdle == ndc_pc = Idle /\ ndc_in = <<>> /\ ndc_out = <<>>
MarchIdle == pc = Idle /\ rays = <<>> /\ N_samples = 0 /\ N_importance = 0
             /\ use_disp = FALSE /\ perturb = Zero /\ density_volume = "None"
             /\ bbox_3D = <<>> /\ z_vals = <<>> /\ xyz = <<>> /\ weights = <<>>
             /\ cos_angle2 = <<>> /\ trace = <<>>

Init ==
    /\ \E n \in 1..MaxRays, ncols \in (RayCols - 1)..MaxCols :
         \E batch \in [1..n -> BaseRows] :
            rays = [r \in 1..n |-> Resize(batch[r], ncols)]
    /\ N_samples \in 1..MaxSamples
    /\ Len(rays) * N_samples <= MaxSlots
    /\ N_importance \in 0..MaxImportance
    /\ use_disp \in BOOLEAN
    /\ perturb \in PerturbSet
    /\ density_volume \in Volumes
    /\ bbox_3D \in BBoxes
    /\ pc = "init" /\ trace = <<"init">>
    /\ z_vals = <<>> /\ xyz = <<>> /\ weights = <<>> /\ cos_angle2 = <<>>
    /\ PdfIdle /\ NdcIdle

-----------------------------------------------------------------------------
(* ray_marcher: the steps *)
Goto(l) == pc' = l /\ trace' = Append(trace, l)
Inputs == <<rays, N_samples, N_importance, use_disp, perturb, density_volume, bbox_3D>>

\* lines 160-183: decompose, sample the depths, jitter, coarse points
CoarseSample ==
    /\ pc = "init"
    /\ IF ~CoarseOk(rays, N_samples)
       THEN Goto("error") /\ UNCHANGED <<z_vals, xyz>>
       ELSE /\ IF RLt(Zero, perturb)
               THEN z_vals' \in
                      { Jitter(CoarseZ(rays, N_samples, use_disp), perturb, rnd) :
                          rnd \in [1..Len(rays) -> [1..N_samples -> RandSet]] }
               ELSE z_vals' = CoarseZ(rays, N_samples, use_disp)
            /\ xyz' = Points(rays, z_vals')
            /\ Goto("coarse")
    /\ UNCHANGED <<Inputs, weights, cos_angle2, pvars, nvars>>

\* line 186
UseDensity == density_volume # "None" /\ N_importance > 0

\* lines 188-195: normalise the points, query the density, weights
DensityQuery ==
    /\ pc = "coarse" /\ UseDensity
    /\ IF PtsRows(xyz) = -1
       THEN Goto("error") /\ UNCHANGED <<weights, cos_angle2>>
       ELSE /\ cos_angle2' = CosAngle2(rays)
            /\ weights' = DensityWeights(rays, z_vals, xyz, bbox_3D, density_volume)
            /\ Goto("density")
    /\ UNCHANGED <<Inputs, z_vals, xyz, pvars, nvars>>

\* lines 198-199: draw the importance samples, merge and sort
Resample ==
    /\ pc = "density"
    /\ IF ~BinsExpandOk(z_vals, weights) \/ Rows(weights) # Rows(z_vals)
       THEN Goto("error") /\ UNCHANGED z_vals
       ELSE /\ LET cdf == Cdf(weights)
               IN  z_vals' \in
                     { LET z_samples == Samples(z_vals, cdf, u)
                       IN  [r \in 1..Rows(z_vals) |-> Sort(z_samples[r] \o z_vals[r])] :
                         u \in [1..Rows(weights) -> [1..N_importance -> MarchUSet]] }
            /\ Goto("resampled")
    /\ UNCHANGED <<Inputs, xyz, weights, cos_angle2, pvars, nvars>>

\* lines 202-206: the final points, and return
Finalize ==
    /\ \/ pc = "coarse" /\ ~UseDensity
       \/ pc = "resampled"
    /\ xyz' = Points(rays, z_vals)
    /\ Goto("final")
    /\ UNCHANGED <<Inputs, z_vals, weights, cos_angle2, pvars, nvars>>

Next == CoarseSample \/ DensityQuery \/ Resample \/ Finalize
Spec == Init /\ [][Next]_vars

-----------------------------------------------------------------------------
(* sample_pdf on its own: one row of bins, one row of weights *)
BinVals == {1, 3}
WeightVals == {0, 2}
\* the ordered bin rows of length n
BinRows(n) == {b \in [1..n -> BinVals] : \A i \in 1..(n - 1) : b[i] <= b[i + 1]}
USet == {Zero, Half, Q(3, 4)}    \* draws of torch.rand, in [0,1)

InitPdf ==
    /\ \E n \in 1..MaxBins : \E b \in BinRows(n) : bins = <<ToR(b)>>
    /\ \E n \in 1..MaxWeights : \E w \in [1..n -> WeightVals] : pdf_w = <<ToR(w)>>
    /\ pdf_n \in 1..MaxDraws
    /\ det \in BOOLEAN
    /\ pdf_pc = "call" /\ pdf_out = <<>>
    /\ MarchIdle /\ NdcIdle

\* lines 97-140; u is torch.linspace(0, 1, N_samples) when det, else drawn
SamplePdfCall ==
    /\ pdf_pc = "call"
    /\ IF det
       THEN pdf_out' = SamplePdf(bins, pdf_w, <<Linspace(pdf_n)>>)
       ELSE \E u \in [1..pdf_n -> USet] : pdf_out' = SamplePdf(bins, pdf_w, <<u>>)
    /\ pdf_pc' = IF pdf_out'.err THEN "error" ELSE "done"
    /\ UNCHANGED <<bins, pdf_w, pdf_n, det, mvars, nvars>>

NextPdf == SamplePdfCall
SpecPdf == InitPdf /\ [][NextPdf]_vars

-----------------------------------------------------------------------------
(* get_ndc_rays on its own: one ray *)
NdcNears == {0, 1, 2}
NdcOrigins == { <<0, 0, 0>>, <<1, 0, -1>>, <<0, 2, 3>> }
NdcDirs == { <<0, 0, 1>>, <<1, 2, -2>>, <<1, 0, 0>>, <<0, 0, 0>> }
NdcSizes == { <<2, 2>>, <<4, 2>> }             \* (H, W)
NdcFocals == { <<1, 1>>, <<2, 1>> }

InitNdc ==
    /\ ndc_in \in [near : NdcNears, o : NdcOrigins, d : NdcDirs,
                   size : NdcSizes, focal : NdcFocals]
    /\ ndc_pc = "call" /\ ndc_out = <<>>
    /\ MarchIdle /\ PdfIdle

\* lines 73-93
NdcCall ==
    /\ ndc_pc = "call"
    /\ ndc_out' = GetNdcRays(ndc_in.size[1], ndc_in.size[2], ToR(ndc_in.focal),
                             R(ndc_in.near), ToR(ndc_in.o), ToR(ndc_in.d))
    /\ ndc_pc' = "done"
    /\ UNCHANGED <<ndc_in, mvars, pvars>>

NextNdc == NdcCall
SpecNdc == InitNdc /\ [][NextNdc]_vars

-----------------------------------------------------------------------------
(* Properties *)
M == N_samples
K == N_importance
Sampled == pc \in {"coarse", "density", "resampled", "final"}
NormSq(v) == RowSum([c \in 1..3 |-> RMul(v[c], v[c])])

\* C1: the z-values of every ray are non-decreasing, after the coarse
\* sampling (linear or disparity, with or without jitter) and after the
\* importance samples are merged, up to and including the returned values.
C1_SortedZ == Sampled => \A r \in 1..Rows(z_vals) : IsSorted(z_vals[r])
\* a returned row of at least 3 jittered samples, strictly increasing and
\* moved off the unjittered positions
C1_Witness ==
    /\ pc = "final" /\ RLt(Zero, perturb) /\ M >= 3
    /\ \E r \in 1..Rows(z_vals) :
         /\ \A i \in 1..(M - 1) : RLt(z_vals[r][i], z_vals[r][i + 1])
         /\ z_vals[r] # CoarseZ(rays, M, use_disp)[r]

\* C2 as claimed: linear depth, no jitter: for every M >= 1 the first coarse
\* z-value is near and the last is far.
C2_Original ==
    (pc = "coarse" /\ ~use_disp /\ perturb = Zero) =>
        \A r \in 1..Rows(rays) :
            /\ z_vals[r][1] = Near(rays)[r][1]
            /\ z_vals[r][M] = Far(rays)[r][1]
\* C2 amended: the first coarse z-value is near for every M >= 1; the last
\* is far for every M >= 2 (with M = 1 the only z-value is near).
C2_Endpoints ==
    (pc = "coarse" /\ ~use_disp /\ perturb = Zero) =>
        \A r \in 1..Rows(rays) :
            /\ z_vals[r][1] = Near(rays)[r][1]
            /\ M >= 2 => z_vals[r][M] = Far(rays)[r][1]
            /\ M = 1 => z_vals[r] = <<Near(rays)[r][1]>>
C2_Witness ==
    /\ pc = "coarse" /\ ~use_disp /\ perturb = Zero /\ M >= 2
    /\ \E r \in 1..Rows(rays) : RLt(Near(rays)[r][1], Far(rays)[r][1])

\* C3: on a well-formed batch the marcher goes init -> coarse -> (density ->
\* resampled) -> final, the density query and the resampler running exactly
\* when a density field is given and K > 0; it then returns M+K z-values per
\* ray, otherwise the M coarse ones, with one point per z-value.
C3_Claim ==
    Cols(rays) = RayCols =>
        /\ LET path == IF UseDensity
                        THEN <<"init", "coarse", "density", "resampled", "final">>
                        ELSE <<"init", "coarse", "final">>
           IN  trace \in {SubSeq(path, 1, n) : n \in 1..Len(path)}
        /\ pc = "final" =>
             /\ Rows(z_vals) = Rows(rays) /\ Rows(xyz) = Rows(rays)
             /\ \A r \in 1..Rows(rays) :
                  /\ Len(z_vals[r]) = IF UseDensity THEN M + K ELSE M
                  /\ Len(xyz[r]) = Len(z_vals[r])

\* C5: a batch whose rows do not have exactly 8 columns is rejected before
\* any sampling is done: it never gets past the initial state, and no
\* output is produced from it.
C5_Claim == Cols(rays) # RayCols => pc \in {"init", "error"}

\* C10: the scale factor applied to ray r's segment lengths is the magnitude
\* of ray r's own direction, and is the same in every batch that agrees on
\* ray r.
C10_Claim ==
    cos_angle2 # <<>> =>
        \A r \in 1..Rows(rays) :
            /\ cos_angle2[r] = NormSq(RaysD(rays)[r])
            /\ \A other \in [1..Rows(rays) -> BaseRows] :
                 other[r] = Slice(rays[r], 0, RayCols)
                    => CosAngle2(other)[r] = cos_angle2[r]

-----------------------------------------------------------------------------
(* Properties of sample_pdf *)
B == Cols(pdf_w)
Called == pdf_pc \in {"done", "error"}
DrawIdx == 1..Cols(pdf_out.u)
\* 0-based positions of a cdf row
FirstGe(row, u) ==
    LET S == {j \in 0..(Len(row) - 1) : RLe(u, row[j + 1])}
    IN  IF S = {} THEN Len(row) ELSE CHOOSE j \in S : \A k \in S : j <= k
FirstGt(row, u) ==
    LET S == {j \in 0..(Len(row) - 1) : RLt(u, row[j + 1])}
    IN  IF S = {} THEN Len(row) ELSE CHOOSE j \in S : \A k \in S : j <= k
Clamp(x, lo, hi) == Max(lo, Min(hi, x))

\* C4 as claimed: the index is the smallest cdf index whose value is >= u,
\* clamped into [1, B]; above is that index and below the one before it.
C4_Original ==
    Called => \A k \in DrawIdx :
        LET idx == Clamp(FirstGe(pdf_out.cdf[1], pdf_out.u[1][k]), 1, B)
        IN  pdf_out.above[1][k] = idx /\ pdf_out.below[1][k] = idx - 1
\* C4 amended: the index is the smallest cdf index whose value is > u (B+1
\* when no value exceeds u); below = max(0, index-1), above = min(B, index);
\* above is in [1, B] and below = above - 1, except that below = above = B
\* when no cdf value exceeds u.
C4_RightSearch ==
    Called => \A k \in DrawIdx :
        LET first == FirstGt(pdf_out.cdf[1], pdf_out.u[1][k])
            lo == pdf_out.below[1][k]
            hi == pdf_out.above[1][k]
        IN  /\ pdf_out.inds[1][k] = first
            /\ first \in 1..(B + 1)
            /\ hi \in 1..B
            /\ first <= B => (hi = first /\ lo = hi - 1)
            /\ first = B + 1 => (lo = B /\ hi = B)
\* a draw that ties with an interior cdf value
C4_Witness ==
    /\ pdf_pc = "done"
    /\ \E k \in DrawIdx : \E j \in 1..(B - 1) :
         /\ pdf_out.u[1][k] = pdf_out.cdf[1][j + 1]
         /\ pdf_out.below[1][k] = j

AllFinite(row) == \A i \in 1..Len(row) : IsFinite(row[i])
\* C7: the stabilised weight sum is > 0 and the divisor of t is never 0: it
\* is 1 whenever cdf_above - cdf_below is below 1e-5 (also when below and
\* above coincide); every returned sample is finite.
C7_NoZeroDivisor ==
    Called =>
        /\ RLt(Zero, pdf_out.sum[1])
        /\ AllFinite(pdf_out.cdf[1])
        /\ \A k \in DrawIdx :
             LET span == RSub(pdf_out.cdf[1][pdf_out.above[1][k] + 1],
                              pdf_out.cdf[1][pdf_out.below[1][k] + 1])
             IN  /\ pdf_out.denom[1][k] # Zero
                 /\ IsFinite(pdf_out.denom[1][k])
                 /\ RLt(span, Eps) => pdf_out.denom[1][k] = One
        /\ pdf_pc = "done" => AllFinite(pdf_out.samples[1])
\* all-zero weights, and a draw whose below and above coincide
C7_Witness ==
    /\ pdf_pc = "done" /\ B >= 2
    /\ \A j \in 1..B : pdf_w[1][j] = Zero
    /\ \E k \in DrawIdx : pdf_out.below[1][k] = pdf_out.above[1][k]

\* C9: given B bins and B weights, every below/above index is a position of
\* the B bins (0 <= below <= above <= B-1), no read is out of range, and the
\* gathered cdf and bins rows have the same length.
C9_Claim ==
    (Called /\ Cols(bins) = B) =>
        /\ ~pdf_out.err
        /\ Cols(pdf_out.cdf) = Cols(bins)
        /\ \A k \in DrawIdx :
             /\ 0 <= pdf_out.below[1][k]
             /\ pdf_out.below[1][k] <= pdf_out.above[1][k]
             /\ pdf_out.above[1][k] <= B - 1

-----------------------------------------------------------------------------
(* Properties of get_ndc_rays *)
\* C6: no division is done with a zero divisor and every component of the
\* returned origin and direction is finite, also for a direction (or a
\* shifted origin) whose z-component is 0.
C6_Claim ==
    ndc_pc = "done" =>
        /\ \A i \in 1..Len(ndc_out.divisors) : ndc_out.divisors[i] # Zero
        /\ AllFinite(ndc_out.rays_o) /\ AllFinite(ndc_out.rays_d)

NdcCase == ndc_pc = "done" /\ ndc_in.d[3] # 0 /\ ndc_in.near > 0
\* C8 as claimed: the shifted origin has z = -near, the remapped origin has
\* z = 1 and the remapped direction z = 1 - that.
C8_Original ==
    NdcCase =>
        /\ ndc_out.shifted[3] = R(-ndc_in.near)
        /\ ndc_out.rays_o[3] = One
        /\ ndc_out.rays_d[3] = RSub(One, ndc_out.rays_o[3])
\* C8 amended: the shifted origin has z = -near, the remapped origin has
\* z = 1 + 2*near/(-near) = -1 and the remapped direction z = 1 - (-1) = 2.
C8_NearPlane ==
    NdcCase =>
        /\ ndc_out.shifted[3] = R(-ndc_in.near)
        /\ ndc_out.rays_o[3] = R(-1)
        /\ ndc_out.rays_d[3] = R(2)
\* an origin off the near plane, so that the shift has moved it
C8_Witness == NdcCase /\ ndc_in.o[3] # -ndc_in.near /\ ndc_in.o[3] # 0

====
